---- MODULE Spec2Model ----
(***************************************************************************)
(* State-machine model of the scsk-fb-autoposter repository: the three     *)
(* poster programs (fb_poster.py, linkedin_poster.py, fb_poster_local.py), *)
(* their persisted posted log, the selector with its cycle reset, the      *)
(* interval gate and the formatter.                                        *)
(*                                                                         *)
(* Time is counted in whole seconds.  Text is a sequence of one-character  *)
(* strings; an emoji is one token of the sequence.                         *)
(***************************************************************************)
EXTENDS Integers, Sequences, FiniteSets, TLC

VARIABLES
    catalog,    \* content.csv as loaded by load_content(): a sequence of post records
    deployed,   \* the set of programs that are scheduled against their log file
    file,       \* per program, the posted-log file: <<>> (absent) or <<log>>
    now,        \* the wall clock, datetime.now(), in seconds
    published,  \* per program, the ids of the records the remote API accepted, in order
    run,        \* observation of the most recent run of a program
    batch,      \* position of a running batch_post / post_multiple loop
    probe,      \* input and output of a function applied on its own
    pictures,   \* the pool images attached to the accepted fb_poster posts, in order
    horizon     \* the number of accepted posts a behaviour is followed for

vars == <<catalog, deployed, file, now, published, run, batch, probe,
          pictures, horizon>>

----------------------------------------------------------------------------
(* Bounds of the model *)

MaxCatalog == 2
MaxTime == 10800
MaxPublishes == 3
MaxBatch == 2
MaxCount == 3
MaxTextLen == 1

(* Program constants *)

GateMin == 107
GateMax == 158
SecondsPerMinute == 60
ImageEvery == 3
BatchDelayMinutes == 30
BatchJitter == 15
TestCount == 3
FEATURED_EVERY == 3
FEATURED_IMAGE == 10
RANDOM_IMAGE_COUNT == 9
MIN_RANDOM_DELAY == 0
MAX_RANDOM_DELAY == 3600
POSTS_PER_RUN == 3
MINUTES_BETWEEN == 20
TimerPeriod == 7200

Programs == {"fb", "li", "lo"}

----------------------------------------------------------------------------
(* Sequences *)

Range(s) == {s[i] : i \in 1..Len(s)}

Min(a, b) == IF a <= b THEN a ELSE b

\* Python's s[:n] for n >= 0
Take(s, n) == SubSeq(s, 1, Min(n, Len(s)))

IsInjective(s) == \A i, j \in 1..Len(s) : s[i] = s[j] => i = j

Ids(ps) == [i \in 1..Len(ps) |-> ps[i].id]

----------------------------------------------------------------------------
(* Text *)

NL == "\n"
SP == " "

EMOJIS == <<"e1", "e2", "e3", "e4", "e5", "e6", "e7", "e8", "e9", "e10",
            "e11", "e12", "e13", "e14", "e15", "e16", "e17">>

image_files == <<"ad-1.png", "ad-2.png", "ad-3.png", "ad-4.png", "ad-5.png",
                 "ad-6.png", "ad-7.png", "ad-8.png", "ad-9.png", "ad-10.png",
                 "Screenshot1.jpg">>

----------------------------------------------------------------------------
(* The content store: load_content() yields the rows in file order *)

Post(i) == [id |-> i, pillar |-> "p",
            content |-> <<"c">>, hashtags |-> <<"#">>, cta |-> <<"t">>]

\* the rows of content.csv; the ids are unique and not in numeric order
AllIds == <<2, 3, 1, 4>>

load_content(m) == [k \in 1..m |-> Post(AllIds[k])]

----------------------------------------------------------------------------
(* The posted log *)

NoneVal == <<>>

DefaultLog == [posted_ids |-> <<>>, last_post_time |-> NoneVal, last_post_id |-> NoneVal]

NoFile == <<>>

\* load_posted_log: the file's content, or the default when it does not exist
load_posted_log(f) == IF f = NoFile THEN DefaultLog ELSE f[1]

\* save_posted_log: the file now holds the log
save_posted_log(log) == <<log>>

----------------------------------------------------------------------------
(* The selector *)

\* the selector without its filter
Available_unfiltered(posts, posted_log) == posts

Available(posts, posted_log) ==
    SelectSeq(posts, LAMBDA p : p.id \notin Range(posted_log.posted_ids))

\* a selector that resets the log and forgets to take the catalog again
get_next_posts_empty_after_reset(posts, posted_log, count) ==
    LET available == Available(posts, posted_log) IN
    IF available = <<>>
    THEN [result |-> Take(available, count),
          log |-> [posted_log EXCEPT !.posted_ids = <<>>],
          reset |-> TRUE, saved |-> FALSE]
    ELSE [result |-> Take(available, count),
          log |-> posted_log, reset |-> FALSE, saved |-> FALSE]

\* a selector that starts the catalog again and keeps the old postedIds
get_next_posts_keeps_ids(posts, posted_log, count) ==
    LET available == Available(posts, posted_log) IN
    IF available = <<>>
    THEN [result |-> Take(posts, count),
          log |-> posted_log, reset |-> TRUE, saved |-> FALSE]
    ELSE [result |-> Take(available, count),
          log |-> posted_log, reset |-> FALSE, saved |-> FALSE]

\* fb_poster.get_next_posts: the reset is made in memory only
get_next_posts(posts, posted_log, count) ==
    LET available == Available(posts, posted_log) IN
    IF available = <<>>
    THEN [result |-> Take(posts, count),
          log |-> [posted_log EXCEPT !.posted_ids = <<>>],
          reset |-> TRUE, saved |-> FALSE]
    ELSE [result |-> Take(available, count),
          log |-> posted_log, reset |-> FALSE, saved |-> FALSE]

\* a selector that takes the last unposted records instead of the first
li_get_next_posts_from_end(posts, posted_log, count) ==
    LET available == Available(posts, posted_log) IN
    IF available = <<>>
    THEN [result |-> Take(posts, count),
          log |-> [posted_log EXCEPT !.posted_ids = <<>>],
          reset |-> TRUE, saved |-> TRUE]
    ELSE [result |-> SubSeq(available, Len(available) - Min(count, Len(available)) + 1,
                            Len(available)),
          log |-> posted_log, reset |-> FALSE, saved |-> FALSE]

\* a selector that starts the new cycle one record late
li_get_next_posts_late_restart(posts, posted_log, count) ==
    LET available == Available(posts, posted_log) IN
    IF available = <<>>
    THEN [result |-> Take(IF Len(posts) > 1 THEN Tail(posts) ELSE posts, count),
          log |-> [posted_log EXCEPT !.posted_ids = <<>>],
          reset |-> TRUE, saved |-> TRUE]
    ELSE [result |-> Take(available, count),
          log |-> posted_log, reset |-> FALSE, saved |-> FALSE]

\* linkedin_poster.get_next_posts: the reset is saved at once
li_get_next_posts(posts, posted_log, count) ==
    LET available == Available(posts, posted_log) IN
    IF available = <<>>
    THEN [result |-> Take(posts, count),
          log |-> [posted_log EXCEPT !.posted_ids = <<>>],
          reset |-> TRUE, saved |-> TRUE]
    ELSE [result |-> Take(available, count),
          log |-> posted_log, reset |-> FALSE, saved |-> FALSE]

\* fb_poster_local.get_next_post: one record (a sequence of length <= 1 here,
\* the empty sequence standing for None); the reset is saved at once
get_next_post(posts, posted_log) ==
    LET available == Available(posts, posted_log) IN
    IF available = <<>>
    THEN [result |-> Take(posts, 1),
          log |-> [posted_log EXCEPT !.posted_ids = <<>>],
          reset |-> TRUE, saved |-> TRUE]
    ELSE [result |-> Take(available, 1),
          log |-> posted_log, reset |-> FALSE, saved |-> FALSE]

----------------------------------------------------------------------------
(* The formatter *)

\* a formatter whose minimal-spacing template leaves the call-to-action out
format_post_variant_drops_cta(post, variant, addEmoji, emoji, insert_pos) ==
    LET content == post.content
        hashtags == post.hashtags
        cta == post.cta
        full_post ==
            CASE variant = 1 -> content \o <<NL, NL>> \o cta \o <<NL, NL>> \o hashtags
              [] variant = 2 -> hashtags \o <<NL, NL>> \o content \o <<NL, NL>> \o cta
              [] variant = 3 -> content \o <<NL, NL>> \o hashtags \o <<NL, NL>> \o cta
              [] variant = 4 -> content \o <<NL, NL, NL>> \o cta \o <<NL, NL>> \o hashtags
              [] OTHER -> content \o <<NL>> \o hashtags
    IN  IF addEmoji
        THEN IF insert_pos = 0
             THEN <<emoji, SP>> \o full_post
             ELSE full_post \o <<SP, emoji>>
        ELSE full_post

\* fb_poster.format_post_variant; variant is random.choice([1..5]), addEmoji
\* is random.choice([True, False, False]), emoji is random.choice(EMOJIS) and
\* insert_pos is random.choice([0, -1])
format_post_variant(post, variant, addEmoji, emoji, insert_pos) ==
    LET content == post.content
        hashtags == post.hashtags
        cta == post.cta
        full_post ==
            CASE variant = 1 -> content \o <<NL, NL>> \o cta \o <<NL, NL>> \o hashtags
              [] variant = 2 -> hashtags \o <<NL, NL>> \o content \o <<NL, NL>> \o cta
              [] variant = 3 -> content \o <<NL, NL>> \o hashtags \o <<NL, NL>> \o cta
              [] variant = 4 -> content \o <<NL, NL, NL>> \o cta \o <<NL, NL>> \o hashtags
              [] OTHER -> content \o <<NL>> \o cta \o <<NL>> \o hashtags
    IN  IF addEmoji
        THEN IF insert_pos = 0
             THEN <<emoji, SP>> \o full_post
             ELSE full_post \o <<SP, emoji>>
        ELSE full_post

\* linkedin_poster.format_post
li_format_post(post) ==
    post.content \o <<NL, NL>> \o post.cta \o <<NL, NL>> \o post.hashtags

\* fb_poster_local.format_post
format_post(post) ==
    post.content \o <<NL, NL>> \o post.cta \o <<NL, NL>> \o post.hashtags

----------------------------------------------------------------------------
(* The interval gate *)

\* a gate that looks at skip_wait only when there was no post yet
should_post_now_ignores_skip(posted_log, skip_wait, t, required_minutes) ==
    IF posted_log.last_post_time = NoneVal THEN <<TRUE, 0>>
    ELSE LET last_post == posted_log.last_post_time[1]
             seconds_since == t - last_post
         IN  IF seconds_since >= required_minutes * SecondsPerMinute
             THEN <<TRUE, 0>>
             ELSE <<FALSE, (required_minutes * SecondsPerMinute - seconds_since)
                               \div SecondsPerMinute>>

\* a gate that wants strictly more than the required interval
should_post_now_strict(posted_log, skip_wait, t, required_minutes) ==
    IF skip_wait THEN <<TRUE, 0>>
    ELSE IF posted_log.last_post_time = NoneVal THEN <<TRUE, 0>>
    ELSE LET last_post == posted_log.last_post_time[1]
             seconds_since == t - last_post
         IN  IF seconds_since > required_minutes * SecondsPerMinute
             THEN <<TRUE, 0>>
             ELSE <<FALSE, (required_minutes * SecondsPerMinute - seconds_since)
                               \div SecondsPerMinute>>

\* a gate that rounds the remaining minutes up
should_post_now_rounds_up(posted_log, skip_wait, t, required_minutes) ==
    IF skip_wait THEN <<TRUE, 0>>
    ELSE IF posted_log.last_post_time = NoneVal THEN <<TRUE, 0>>
    ELSE LET last_post == posted_log.last_post_time[1]
             seconds_since == t - last_post
         IN  IF seconds_since >= required_minutes * SecondsPerMinute
             THEN <<TRUE, 0>>
             ELSE <<FALSE, (required_minutes * SecondsPerMinute - seconds_since
                              + SecondsPerMinute - 1) \div SecondsPerMinute>>

\* a gate that never opens again after the first post
should_post_now_never_again(posted_log, skip_wait, t, required_minutes) ==
    IF skip_wait THEN <<TRUE, 0>>
    ELSE IF posted_log.last_post_time = NoneVal THEN <<TRUE, 0>>
    ELSE <<FALSE, required_minutes>>

\* a gate that asks for one minute more than it drew
should_post_now_one_more(posted_log, skip_wait, t, required_minutes) ==
    IF skip_wait THEN <<TRUE, 0>>
    ELSE IF posted_log.last_post_time = NoneVal THEN <<TRUE, 0>>
    ELSE LET last_post == posted_log.last_post_time[1]
             seconds_since == t - last_post
         IN  IF seconds_since >= (required_minutes + 1) * SecondsPerMinute
             THEN <<TRUE, 0>>
             ELSE <<FALSE, ((required_minutes + 1) * SecondsPerMinute - seconds_since)
                               \div SecondsPerMinute>>

\* a gate that counts half minutes as minutes
should_post_now_half_minutes(posted_log, skip_wait, t, required_minutes) ==
    IF skip_wait THEN <<TRUE, 0>>
    ELSE IF posted_log.last_post_time = NoneVal THEN <<TRUE, 0>>
    ELSE LET last_post == posted_log.last_post_time[1]
             seconds_since == t - last_post
         IN  IF 2 * seconds_since >= required_minutes * SecondsPerMinute
             THEN <<TRUE, 0>>
             ELSE <<FALSE, (required_minutes * SecondsPerMinute - 2 * seconds_since)
                               \div SecondsPerMinute>>

\* fb_poster.should_post_now.  t is datetime.now() and required_minutes is
\* random.randint(107, 158).  minutes_since = (t - last_post) / 60 is compared
\* in seconds; int() truncates, which on the positive difference of the else
\* branch is the whole-minute quotient.
should_post_now(posted_log, skip_wait, t, required_minutes) ==
    IF skip_wait THEN <<TRUE, 0>>
    ELSE IF posted_log.last_post_time = NoneVal THEN <<TRUE, 0>>
    ELSE LET last_post == posted_log.last_post_time[1]
             seconds_since == t - last_post
         IN  IF seconds_since >= required_minutes * SecondsPerMinute
             THEN <<TRUE, 0>>
             ELSE <<FALSE, (required_minutes * SecondsPerMinute - seconds_since)
                               \div SecondsPerMinute>>

----------------------------------------------------------------------------
(* Observation of a run: what it read, selected, sent and returned *)

NoRun == [prog |-> "none", before |-> NoFile, gate |-> FALSE, reset |-> FALSE,
          selected |-> <<>>, lookups |-> 0, uploads |-> 0, submits |-> 0,
          image |-> 0, attached |-> FALSE, ok |-> FALSE, exit |-> 0,
          inBatch |-> FALSE, creds |-> FALSE, user |-> "n/a", wanted |-> 0,
          skip_wait |-> FALSE]

Obs(prog, before) == [NoRun EXCEPT !.prog = prog, !.before = before]

Idle == [prog |-> "none", i |-> 0, count |-> 0,
         event |-> "schedule", creds |-> FALSE]

Events == {"schedule", "workflow_dispatch"}
Outcomes == {"ok", "error", "exception"}
RemoteIds == {"r1"}

----------------------------------------------------------------------------
(* fb_poster.py *)

\* post_to_facebook: (success, id), and the number of requests sent to the feed
post_to_facebook(creds, outcome, rid) ==
    IF ~creds THEN [ok |-> FALSE, id |-> NoneVal, submits |-> 0]
    ELSE IF outcome = "ok" THEN [ok |-> TRUE, id |-> <<rid>>, submits |-> 1]
    ELSE [ok |-> FALSE, id |-> NoneVal, submits |-> 1]

\* the image of main(): 0 for none, else the 1-based position in image_files
\* a rotation that counts the image-bearing posts from one instead of zero
fb_image_counts_from_one(posts_count, imgExists) ==
    IF (posts_count + 1) % ImageEvery = 0
    THEN LET image_index == ((posts_count + 1) \div ImageEvery) % Len(image_files)
         IN  IF imgExists THEN image_index + 1 ELSE 0
    ELSE 0

fb_image(posts_count, imgExists) ==
    IF (posts_count + 1) % ImageEvery = 0
    THEN LET image_index == (posts_count \div ImageEvery) % Len(image_files)
         IN  IF imgExists THEN image_index + 1 ELSE 0
    ELSE 0

\* the pool image main() selects for a post count: 0 for none, else the
\* 1-based position in image_files
fb_selected_image(posts_count) == fb_image(posts_count, TRUE)

\* an end of main() that writes the log before looking at the result
main_update_log_always(f, posted_log, post_id, t, res) ==
    save_posted_log([posted_ids |-> Append(posted_log.posted_ids, post_id),
                     last_post_time |-> <<t>>,
                     last_post_id |-> res.id])

\* an end of main() that appends to the list as it was read from the file
main_update_log_appends_to_file(f, posted_log, post_id, t, res) ==
    IF res.ok
    THEN save_posted_log([posted_ids |-> Append(load_posted_log(f).posted_ids, post_id),
                          last_post_time |-> <<t>>,
                          last_post_id |-> res.id])
    ELSE f

\* the end of main(): the log is appended to and saved on success only
main_update_log(f, posted_log, post_id, t, res) ==
    IF res.ok
    THEN save_posted_log([posted_ids |-> Append(posted_log.posted_ids, post_id),
                          last_post_time |-> <<t>>,
                          last_post_id |-> res.id])
    ELSE f

\* a main() that calls the selector before it asks the gate
main_selects_before_gate(f, posts, t, event, required_minutes, creds, imgExists, outcome, rid) ==
    LET posted_log == load_posted_log(f)
        skip_wait == (event = "workflow_dispatch")
        gate == should_post_now(posted_log, skip_wait, t, required_minutes)
        sel == get_next_posts(posts, posted_log, 1)
        post == sel.result[1]
        image == fb_image(Len(sel.log.posted_ids), imgExists)
        res == post_to_facebook(creds, outcome, rid)
        o == [Obs("fb_main", f) EXCEPT !.creds = creds, !.skip_wait = skip_wait,
                                       !.reset = sel.reset,
                                       !.selected = Ids(sel.result)]
    IN  IF ~gate[1]
        THEN [file |-> f, pub |-> <<>>, obs |-> o]
        ELSE IF sel.result = <<>>
        THEN [file |-> f, pub |-> <<>>, obs |-> [o EXCEPT !.gate = TRUE]]
        ELSE LET o2 == [o EXCEPT !.gate = TRUE,
                                 !.submits = res.submits,
                                 !.image = image,
                                 !.wanted = fb_selected_image(Len(sel.log.posted_ids)),
                                 !.attached = (image # 0 /\ res.submits > 0)]
             IN  IF res.ok
                 THEN [file |-> main_update_log(f, sel.log, post.id, t, res),
                       pub |-> <<post.id>>,
                       obs |-> [o2 EXCEPT !.ok = TRUE]]
                 ELSE [file |-> main_update_log(f, sel.log, post.id, t, res),
                       pub |-> <<>>, obs |-> [o2 EXCEPT !.exit = 1]]

\* main(): the file and the observation it leaves, and the published record
main(f, posts, t, event, required_minutes, creds, imgExists, outcome, rid) ==
    LET posted_log == load_posted_log(f)
        skip_wait == (event = "workflow_dispatch")
        gate == should_post_now(posted_log, skip_wait, t, required_minutes)
        sel == get_next_posts(posts, posted_log, 1)
        post == sel.result[1]
        image == fb_image(Len(sel.log.posted_ids), imgExists)
        res == post_to_facebook(creds, outcome, rid)
        o == [Obs("fb_main", f) EXCEPT !.creds = creds, !.skip_wait = skip_wait]
    IN  IF ~gate[1]
        THEN [file |-> f, pub |-> <<>>, obs |-> o]
        ELSE IF sel.result = <<>>
        THEN [file |-> f, pub |-> <<>>,
              obs |-> [o EXCEPT !.gate = TRUE, !.reset = sel.reset]]
        ELSE LET o2 == [o EXCEPT !.gate = TRUE, !.reset = sel.reset,
                                 !.selected = <<post.id>>,
                                 !.submits = res.submits,
                                 !.image = image,
                                 !.wanted = fb_selected_image(Len(sel.log.posted_ids)),
                                 !.attached = (image # 0 /\ res.submits > 0)]
             IN  IF res.ok
                 THEN [file |-> main_update_log(f, sel.log, post.id, t, res),
                       pub |-> <<post.id>>,
                       obs |-> [o2 EXCEPT !.ok = TRUE]]
                 ELSE [file |-> main_update_log(f, sel.log, post.id, t, res),
                       pub |-> <<>>, obs |-> [o2 EXCEPT !.exit = 1]]

\* test_mode(): selects and formats three posts; nothing is saved
test_mode(f, posts) ==
    LET posted_log == load_posted_log(f)
        sel == get_next_posts(posts, posted_log, TestCount)
    IN  [file |-> f, pub |-> <<>>,
         obs |-> [Obs("fb_test", f) EXCEPT !.reset = sel.reset,
                                          !.selected = Ids(sel.result)]]

----------------------------------------------------------------------------
(* linkedin_poster.py *)

Identities == {"override", "userinfo", "me", "none", "raise"}
UploadOutcomes == {"ok", "register", "download", "upload", "exception"}

\* get_user_id: whether an id was found, and the lookup requests sent
get_user_id(identity) ==
    CASE identity = "override" -> [found |-> TRUE, lookups |-> 0]
      [] identity = "userinfo" -> [found |-> TRUE, lookups |-> 1]
      [] identity = "me" -> [found |-> TRUE, lookups |-> 2]
      [] identity = "none" -> [found |-> FALSE, lookups |-> 2]
      [] OTHER -> [found |-> FALSE, lookups |-> 1]

\* a cadence that features the first post of every three instead of the third
get_image_url_featured_first(post_number, rnd) ==
    IF post_number % FEATURED_EVERY = 1 THEN FEATURED_IMAGE ELSE rnd

\* get_image_url: the number of the ad image; rnd is random.randint(1, 9)
get_image_url(post_number, rnd) ==
    IF post_number % FEATURED_EVERY = 0 THEN FEATURED_IMAGE ELSE rnd

\* upload_image_to_linkedin: whether an asset came back, and the requests sent
upload_image_to_linkedin(upload) ==
    CASE upload = "ok" -> [asset |-> TRUE, requests |-> 3]
      [] upload = "register" -> [asset |-> FALSE, requests |-> 1]
      [] upload = "download" -> [asset |-> FALSE, requests |-> 2]
      [] upload = "upload" -> [asset |-> FALSE, requests |-> 3]
      [] OTHER -> [asset |-> FALSE, requests |-> 1]

\* a publisher that goes on to the upload and the submission without a user id
post_to_linkedin_without_user(post_number, creds, identity, rnd, upload, outcome, rid) ==
    LET user == get_user_id(identity)
        up == upload_image_to_linkedin(upload)
        none == [ok |-> FALSE, id |-> NoneVal, lookups |-> 0, uploads |-> 0,
                 submits |-> 0, image |-> 0, attached |-> FALSE, user |-> "n/a"]
    IN  IF ~creds THEN none
        ELSE [ok |-> (outcome = "ok"),
              id |-> IF outcome = "ok" THEN <<rid>> ELSE NoneVal,
              lookups |-> user.lookups, uploads |-> up.requests, submits |-> 1,
              image |-> get_image_url(post_number, rnd), attached |-> up.asset,
              user |-> IF user.found THEN "found" ELSE "missing"]

\* a publisher that gives up when the image upload returns no asset
post_to_linkedin_needs_asset(post_number, creds, identity, rnd, upload, outcome, rid) ==
    LET user == get_user_id(identity)
        up == upload_image_to_linkedin(upload)
        none == [ok |-> FALSE, id |-> NoneVal, lookups |-> 0, uploads |-> 0,
                 submits |-> 0, image |-> 0, attached |-> FALSE, user |-> "n/a"]
    IN  IF ~creds THEN none
        ELSE IF ~user.found
        THEN [none EXCEPT !.lookups = user.lookups, !.user = "missing"]
        ELSE IF ~up.asset
        THEN [none EXCEPT !.lookups = user.lookups, !.uploads = up.requests,
                          !.image = get_image_url(post_number, rnd),
                          !.user = "found"]
        ELSE [ok |-> (outcome = "ok"),
              id |-> IF outcome = "ok" THEN <<rid>> ELSE NoneVal,
              lookups |-> user.lookups, uploads |-> up.requests, submits |-> 1,
              image |-> get_image_url(post_number, rnd), attached |-> up.asset,
              user |-> "found"]

post_to_linkedin(post_number, creds, identity, rnd, upload, outcome, rid) ==
    LET user == get_user_id(identity)
        up == upload_image_to_linkedin(upload)
        none == [ok |-> FALSE, id |-> NoneVal, lookups |-> 0, uploads |-> 0,
                 submits |-> 0, image |-> 0, attached |-> FALSE, user |-> "n/a"]
    IN  IF ~creds THEN none
        ELSE IF ~user.found
        THEN [none EXCEPT !.lookups = user.lookups, !.user = "missing"]
        ELSE [ok |-> (outcome = "ok"),
              id |-> IF outcome = "ok" THEN <<rid>> ELSE NoneVal,
              lookups |-> user.lookups, uploads |-> up.requests, submits |-> 1,
              image |-> get_image_url(post_number, rnd), attached |-> up.asset,
              user |-> "found"]

\* an end of main() that also records the record of a refused submission
li_main_update_log_marks_attempt(f, posted_log, post_id, t, res) ==
    IF res.ok
    THEN save_posted_log([posted_ids |-> Append(posted_log.posted_ids, post_id),
                          last_post_time |-> <<t>>,
                          last_post_id |-> res.id])
    ELSE IF res.submits > 0
    THEN save_posted_log([posted_log EXCEPT
                            !.posted_ids = Append(posted_log.posted_ids, post_id)])
    ELSE f

\* the end of main(): the log is appended to and saved on success only
li_main_update_log(f, posted_log, post_id, t, res) ==
    IF res.ok
    THEN save_posted_log([posted_ids |-> Append(posted_log.posted_ids, post_id),
                          last_post_time |-> <<t>>,
                          last_post_id |-> res.id])
    ELSE f

\* main() after its random delay; t is the time at which it posts
li_main(f, posts, t, creds, identity, rnd, upload, outcome, rid) ==
    LET posted_log == load_posted_log(f)
        sel == li_get_next_posts(posts, posted_log, 1)
        f1 == IF sel.saved THEN save_posted_log(sel.log) ELSE f
        post == sel.result[1]
        post_number == Len(sel.log.posted_ids) + 1
        res == post_to_linkedin(post_number, creds, identity, rnd, upload, outcome, rid)
        o == [Obs("li_main", f) EXCEPT !.gate = TRUE, !.reset = sel.reset,
                                       !.creds = creds]
    IN  IF sel.result = <<>>
        THEN [file |-> f1, pub |-> <<>>, obs |-> o]
        ELSE LET o2 == [o EXCEPT !.selected = <<post.id>>,
                                 !.lookups = res.lookups,
                                 !.uploads = res.uploads,
                                 !.submits = res.submits,
                                 !.image = res.image,
                                 !.wanted = res.image,
                                 !.user = res.user,
                                 !.attached = res.attached]
             IN  IF res.ok
                 THEN [file |-> li_main_update_log(f1, sel.log, post.id, t, res),
                       pub |-> <<post.id>>,
                       obs |-> [o2 EXCEPT !.ok = TRUE]]
                 ELSE [file |-> li_main_update_log(f1, sel.log, post.id, t, res),
                       pub |-> <<>>, obs |-> [o2 EXCEPT !.exit = 1]]

\* test_mode(): get_next_posts saves the log when it resets the cycle
li_test_mode(f, posts) ==
    LET posted_log == load_posted_log(f)
        sel == li_get_next_posts(posts, posted_log, TestCount)
    IN  [file |-> IF sel.saved THEN save_posted_log(sel.log) ELSE f,
         pub |-> <<>>,
         obs |-> [Obs("li_test", f) EXCEPT !.reset = sel.reset,
                                          !.selected = Ids(sel.result)]]

----------------------------------------------------------------------------
(* fb_poster_local.py *)

\* post_to_facebook of the local script
lo_post_to_facebook(creds, outcome, rid) ==
    IF ~creds THEN [ok |-> FALSE, id |-> NoneVal, submits |-> 0]
    ELSE IF outcome = "ok" THEN [ok |-> TRUE, id |-> <<rid>>, submits |-> 1]
    ELSE [ok |-> FALSE, id |-> NoneVal, submits |-> 1]

\* the end of post_single(): last_post_id is not written by this script
post_single_update_log(f, posted_log, post_id, t, res) ==
    IF res.ok
    THEN save_posted_log([posted_log EXCEPT
                            !.posted_ids = Append(posted_log.posted_ids, post_id),
                            !.last_post_time = <<t>>])
    ELSE f

\* post_single(): a failure is printed and the function returns
post_single(f, posts, t, creds, outcome, rid) ==
    LET posted_log == load_posted_log(f)
        sel == get_next_post(posts, posted_log)
        f1 == IF sel.saved THEN save_posted_log(sel.log) ELSE f
        post == sel.result[1]
        res == lo_post_to_facebook(creds, outcome, rid)
        o == [Obs("lo_single", f) EXCEPT !.gate = TRUE, !.reset = sel.reset,
                                         !.creds = creds]
    IN  IF sel.result = <<>>
        THEN [file |-> f1, pub |-> <<>>, obs |-> o]
        ELSE LET o2 == [o EXCEPT !.selected = <<post.id>>, !.submits = res.submits]
             IN  IF res.ok
                 THEN [file |-> post_single_update_log(f1, sel.log, post.id, t, res),
                       pub |-> <<post.id>>,
                       obs |-> [o2 EXCEPT !.ok = TRUE]]
                 ELSE [file |-> post_single_update_log(f1, sel.log, post.id, t, res),
                       pub |-> <<>>, obs |-> o2]

\* show_status(): lists the next three unposted records
show_status(f, posts) ==
    LET posted_log == load_posted_log(f)
    IN  [file |-> f, pub |-> <<>>,
         obs |-> [Obs("lo_status", f) EXCEPT
                    !.selected = Ids(Take(Available(posts, posted_log), 3))]]

\* a reset that empties the ids and keeps the time of the last post
reset_log_keeps_time(f) ==
    [file |-> save_posted_log([posted_ids |-> <<>>,
                               last_post_time |-> load_posted_log(f).last_post_time,
                               last_post_id |-> NoneVal]),
     pub |-> <<>>,
     obs |-> Obs("lo_reset", f)]

\* reset_log()
reset_log(f) ==
    [file |-> save_posted_log([posted_ids |-> <<>>, last_post_time |-> NoneVal,
                               last_post_id |-> NoneVal]),
     pub |-> <<>>,
     obs |-> Obs("lo_reset", f)]

----------------------------------------------------------------------------
(* Inputs drawn by the environment *)

\* how far the clock moves between two runs, in seconds
AdvanceSteps == {1800, 7200}

\* random.randint(-15, 15) of batch_post, in minutes
BatchJitters == {0 - BatchJitter, 0, BatchJitter}

\* random.randint(MIN_RANDOM_DELAY, MAX_RANDOM_DELAY) of linkedin main()
LiDelays == {MIN_RANDOM_DELAY, 1800, MAX_RANDOM_DELAY}

\* random.randint(107, 158) of should_post_now
RequiredDraws == {GateMin, 132, GateMax}

\* random.randint(1, RANDOM_IMAGE_COUNT) of get_image_url
RandomDraws == {1, RANDOM_IMAGE_COUNT}

BatchCounts == 1..MaxBatch

NoProbe == [op |-> "none"]

----------------------------------------------------------------------------
(* The state machine of the scheduled programs *)

Init ==
    /\ \E m \in 0..MaxCatalog : catalog = load_content(m)
    /\ \E p \in Programs : deployed = {p}
    /\ file = [p \in Programs |-> NoFile]
    /\ now = 0
    /\ published = [p \in Programs |-> <<>>]
    /\ run = NoRun
    /\ batch = Idle
    /\ probe = NoProbe
    /\ pictures = <<>>
    /\ horizon = MaxPublishes

Ready(p) ==
    /\ p \in deployed
    /\ batch.prog = "none"
    /\ Len(published[p]) < horizon

\* the effect of one run of program p on the file, the history and the observation
Apply(p, res) ==
    /\ file' = [file EXCEPT ![p] = res.file]
    /\ published' = [published EXCEPT ![p] = @ \o res.pub]
    /\ run' = res.obs
    /\ pictures' = IF res.obs.prog = "fb_main" /\ res.obs.ok /\ res.obs.image # 0
                   THEN Append(pictures, res.obs.image)
                   ELSE pictures

\* time passes between runs
Tick ==
    /\ batch.prog = "none"
    /\ \E d \in AdvanceSteps : now + d <= MaxTime /\ now' = now + d
    /\ UNCHANGED <<catalog, deployed, file, published, run, batch, probe, pictures, horizon>>

\* python fb_poster.py
FbMain ==
    /\ Ready("fb")
    /\ \E event \in Events, r \in RequiredDraws, creds \in BOOLEAN,
          imgExists \in BOOLEAN, outcome \in Outcomes, rid \in RemoteIds :
          Apply("fb", main(file["fb"], catalog, now, event, r, creds,
                           imgExists, outcome, rid))
    /\ UNCHANGED <<catalog, deployed, now, batch, probe, horizon>>

\* python fb_poster.py test
FbTest ==
    /\ Ready("fb")
    /\ Apply("fb", test_mode(file["fb"], catalog))
    /\ UNCHANGED <<catalog, deployed, now, batch, probe, horizon>>

\* python fb_poster.py batch [count]: batch_post enters its loop
FbBatchStart ==
    /\ Ready("fb")
    /\ \E count \in BatchCounts, event \in Events, creds \in BOOLEAN :
          batch' = [prog |-> "fb", i |-> 0, count |-> count,
                    event |-> event, creds |-> creds]
    /\ UNCHANGED <<catalog, deployed, file, now, published, run, probe, pictures, horizon>>

\* one iteration of batch_post: main(), then the wait unless it was the last
FbBatchIter ==
    /\ batch.prog = "fb"
    /\ Len(published["fb"]) < horizon
    /\ \E r \in RequiredDraws, imgExists \in BOOLEAN, outcome \in Outcomes,
          rid \in RemoteIds, jitter \in BatchJitters :
          LET res == main(file["fb"], catalog, now, batch.event, r, batch.creds,
                          imgExists, outcome, rid)
              actual_delay == BatchDelayMinutes + jitter
              last == ~(batch.i < batch.count - 1)
          IN  /\ Apply("fb", [res EXCEPT !.obs.inBatch = TRUE])
              /\ IF res.obs.exit = 1
                 THEN batch' = Idle /\ now' = now
                 ELSE IF last
                 THEN batch' = Idle /\ now' = now
                 ELSE /\ now + actual_delay * SecondsPerMinute <= MaxTime
                      /\ now' = now + actual_delay * SecondsPerMinute
                      /\ batch' = [batch EXCEPT !.i = @ + 1]
    /\ UNCHANGED <<catalog, deployed, probe, horizon>>

\* python linkedin_poster.py; an input the run never reads is not drawn
LiMain ==
    /\ Ready("li")
    /\ \E timer \in BOOLEAN, creds \in BOOLEAN :
       \E delay \in (IF timer THEN LiDelays ELSE {0}),
          identity \in (IF creds THEN Identities ELSE {"none"}) :
       \E rnd \in (IF creds /\ get_user_id(identity).found THEN RandomDraws ELSE {1}),
          upload \in (IF creds /\ get_user_id(identity).found
                      THEN UploadOutcomes ELSE {"ok"}),
          outcome \in (IF creds /\ get_user_id(identity).found
                       THEN Outcomes ELSE {"error"}),
          rid \in RemoteIds :
          /\ now + delay <= MaxTime
          /\ now' = now + delay
          /\ Apply("li", li_main(file["li"], catalog, now + delay, creds,
                                 identity, rnd, upload, outcome, rid))
    /\ UNCHANGED <<catalog, deployed, batch, probe, horizon>>

\* python linkedin_poster.py test
LiTest ==
    /\ Ready("li")
    /\ Apply("li", li_test_mode(file["li"], catalog))
    /\ UNCHANGED <<catalog, deployed, now, batch, probe, horizon>>

\* python fb_poster_local.py
LoSingle ==
    /\ Ready("lo")
    /\ \E creds \in BOOLEAN, outcome \in Outcomes, rid \in RemoteIds :
          Apply("lo", post_single(file["lo"], catalog, now, creds, outcome, rid))
    /\ UNCHANGED <<catalog, deployed, now, batch, probe, horizon>>

\* python fb_poster_local.py --multi: post_multiple enters its loop
LoMultiStart ==
    /\ Ready("lo")
    /\ \E creds \in BOOLEAN :
          batch' = [prog |-> "lo", i |-> 0, count |-> POSTS_PER_RUN,
                    event |-> "schedule", creds |-> creds]
    /\ UNCHANGED <<catalog, deployed, file, now, published, run, probe, pictures, horizon>>

\* one iteration of post_multiple: post_single(), then the wait unless last
LoMultiIter ==
    /\ batch.prog = "lo"
    /\ Len(published["lo"]) < horizon
    /\ \E outcome \in Outcomes, rid \in RemoteIds :
          LET res == post_single(file["lo"], catalog, now, batch.creds, outcome, rid)
              last == ~(batch.i < batch.count - 1)
          IN  /\ Apply("lo", [res EXCEPT !.obs.inBatch = TRUE])
              /\ IF last
                 THEN batch' = Idle /\ now' = now
                 ELSE /\ now + MINUTES_BETWEEN * SecondsPerMinute <= MaxTime
                      /\ now' = now + MINUTES_BETWEEN * SecondsPerMinute
                      /\ batch' = [batch EXCEPT !.i = @ + 1]
    /\ UNCHANGED <<catalog, deployed, probe, horizon>>

\* python fb_poster_local.py --status
LoStatus ==
    /\ Ready("lo")
    /\ Apply("lo", show_status(file["lo"], catalog))
    /\ UNCHANGED <<catalog, deployed, now, batch, probe, horizon>>

\* python fb_poster_local.py --reset
LoReset ==
    /\ Ready("lo")
    /\ Apply("lo", reset_log(file["lo"]))
    /\ UNCHANGED <<catalog, deployed, now, batch, probe, horizon>>

Next ==
    \/ Tick
    \/ FbMain \/ FbTest \/ FbBatchStart \/ FbBatchIter
    \/ LiMain \/ LiTest
    \/ LoSingle \/ LoMultiStart \/ LoMultiIter \/ LoStatus \/ LoReset

Spec == Init /\ [][Next]_vars

TypeOK ==
    /\ now \in 0..MaxTime
    /\ \A p \in Programs : Len(published[p]) <= horizon

----------------------------------------------------------------------------
(* The selector applied on its own to any catalog with unique ids, any log *)
(* and any count                                                           *)

ProbeIds == 1..3
MaxLogLen == 3

SeqsUpTo(S, n) == UNION {[1..k -> S] : k \in 0..n}

\* catalogs of unique ids, in every order
ProbeCatalogs ==
    {[k \in 1..Len(ids) |-> Post(ids[k])] :
        ids \in {q \in SeqsUpTo(ProbeIds, Cardinality(ProbeIds)) : IsInjective(q)}}

ProbeLogs ==
    {[posted_ids |-> ids, last_post_time |-> lt, last_post_id |-> NoneVal] :
        ids \in SeqsUpTo(ProbeIds, MaxLogLen), lt \in {NoneVal, <<0>>}}

Quiet ==
    /\ catalog = <<>>
    /\ deployed = {}
    /\ file = [p \in Programs |-> NoFile]
    /\ now = 0
    /\ published = [p \in Programs |-> <<>>]
    /\ run = NoRun
    /\ batch = Idle
    /\ pictures = <<>>
    /\ horizon = MaxPublishes

InitSelect ==
    /\ Quiet
    /\ \E posts \in ProbeCatalogs, log \in ProbeLogs, count \in 1..MaxCount :
          probe = [op |-> "select_args", posts |-> posts, log |-> log, count |-> count]

SelectFb ==
    /\ probe.op = "select_args"
    /\ probe' = [probe EXCEPT !.op = "get_next_posts"] @@
                [out |-> get_next_posts(probe.posts, probe.log, probe.count)]
    /\ UNCHANGED <<catalog, deployed, file, now, published, run, batch, pictures, horizon>>

SelectLi ==
    /\ probe.op = "select_args"
    /\ probe' = [probe EXCEPT !.op = "li_get_next_posts"] @@
                [out |-> li_get_next_posts(probe.posts, probe.log, probe.count)]
    /\ UNCHANGED <<catalog, deployed, file, now, published, run, batch, pictures, horizon>>

SelectLo ==
    /\ probe.op = "select_args"
    /\ probe.count = 1
    /\ probe' = [probe EXCEPT !.op = "get_next_post"] @@
                [out |-> get_next_post(probe.posts, probe.log)]
    /\ UNCHANGED <<catalog, deployed, file, now, published, run, batch, pictures, horizon>>

NextSelect == SelectFb \/ SelectLi \/ SelectLo

SpecSelect == InitSelect /\ [][NextSelect]_vars

SelectOps == {"get_next_posts", "li_get_next_posts", "get_next_post"}

----------------------------------------------------------------------------
(* The gate applied on its own *)

MaxElapsedMinutes == 200

\* seconds since the last post: around every whole minute up to the bound
ProbeElapsed ==
    {e \in 0..(MaxElapsedMinutes * SecondsPerMinute) :
        e % SecondsPerMinute \in {0, 1, SecondsPerMinute - 1}}

InitGate ==
    /\ Quiet
    /\ \E skip_wait \in BOOLEAN, e \in ProbeElapsed, unset \in BOOLEAN :
          probe = [op |-> "gate_args", skip_wait |-> skip_wait,
                   t |-> MaxElapsedMinutes * SecondsPerMinute,
                   log |-> [posted_ids |-> <<>>, last_post_id |-> NoneVal,
                            last_post_time |->
                               IF unset THEN NoneVal
                               ELSE <<MaxElapsedMinutes * SecondsPerMinute - e>>]]

Gate ==
    /\ probe.op = "gate_args"
    /\ \E r \in GateMin..GateMax :
          probe' = [probe EXCEPT !.op = "should_post_now"] @@
                   [r |-> r,
                    out |-> should_post_now(probe.log, probe.skip_wait, probe.t, r)]
    /\ UNCHANGED <<catalog, deployed, file, now, published, run, batch, pictures, horizon>>

NextGate == Gate

SpecGate == InitGate /\ [][NextGate]_vars

\* two evaluations on the same log at the same instant, each with its own
\* random.randint(107, 158)
GateTwice ==
    /\ probe.op = "gate_args"
    /\ \E r1 \in RequiredDraws, r2 \in RequiredDraws :
          probe' = [probe EXCEPT !.op = "should_post_now_twice"] @@
                   [r |-> <<r1, r2>>,
                    out |-> <<should_post_now(probe.log, probe.skip_wait, probe.t, r1),
                              should_post_now(probe.log, probe.skip_wait, probe.t, r2)>>]
    /\ UNCHANGED <<catalog, deployed, file, now, published, run, batch, pictures, horizon>>

NextGateTwice == GateTwice

SpecGateTwice == InitGate /\ [][NextGateTwice]_vars

----------------------------------------------------------------------------
(* Default-mode runs of fb_poster.py and linkedin_poster.py over a catalog
   long enough for the every-third-post image: fb_poster is followed for two
   cycles of the catalog, linkedin_poster for one *)

CadenceCatalog == 3

InitCadence ==
    /\ catalog = load_content(CadenceCatalog)
    /\ \E p \in {"fb", "li"} :
          /\ deployed = {p}
          /\ horizon = IF p = "fb" THEN 2 * CadenceCatalog ELSE CadenceCatalog
    /\ file = [p \in Programs |-> NoFile]
    /\ now = 0
    /\ published = [p \in Programs |-> <<>>]
    /\ run = NoRun
    /\ batch = Idle
    /\ probe = NoProbe
    /\ pictures = <<>>

NextCadence == Tick \/ FbMain \/ LiMain

SpecCadence == InitCadence /\ [][NextCadence]_vars

----------------------------------------------------------------------------
(* fb_poster.py and linkedin_poster.py deployed side by side over the same
   content.csv, each with its own log, their default-mode runs interleaved *)

InitMirror ==
    /\ \E m \in 0..MaxCatalog : catalog = load_content(m)
    /\ deployed = {"fb", "li"}
    /\ file = [p \in Programs |-> NoFile]
    /\ now = 0
    /\ published = [p \in Programs |-> <<>>]
    /\ run = NoRun
    /\ batch = Idle
    /\ probe = NoProbe
    /\ pictures = <<>>
    /\ horizon = MaxPublishes

\* what is kept of a run's observation here: the program, whether a
\* submission was sent and whether it was accepted
Glimpse(res) ==
    [res EXCEPT !.obs = [NoRun EXCEPT !.prog = res.obs.prog,
                                      !.submits = res.obs.submits,
                                      !.ok = res.obs.ok]]

\* python fb_poster.py, next to linkedin_poster
MirrorFb ==
    /\ Ready("fb")
    /\ \E event \in Events, r \in RequiredDraws, creds \in BOOLEAN,
          imgExists \in BOOLEAN, outcome \in Outcomes, rid \in RemoteIds :
          Apply("fb", Glimpse(main(file["fb"], catalog, now, event, r, creds,
                                   imgExists, outcome, rid)))
    /\ UNCHANGED <<catalog, deployed, now, batch, probe, horizon>>

\* python linkedin_poster.py, next to fb_poster
MirrorLi ==
    /\ Ready("li")
    /\ \E timer \in BOOLEAN, creds \in BOOLEAN :
       \E delay \in (IF timer THEN LiDelays ELSE {0}),
          identity \in (IF creds THEN Identities ELSE {"none"}) :
       \E rnd \in (IF creds /\ get_user_id(identity).found THEN RandomDraws ELSE {1}),
          upload \in (IF creds /\ get_user_id(identity).found
                      THEN UploadOutcomes ELSE {"ok"}),
          outcome \in (IF creds /\ get_user_id(identity).found
                       THEN Outcomes ELSE {"error"}),
          rid \in RemoteIds :
          /\ now + delay <= MaxTime
          /\ now' = now + delay
          /\ Apply("li", Glimpse(li_main(file["li"], catalog, now + delay, creds,
                                         identity, rnd, upload, outcome, rid)))
    /\ UNCHANGED <<catalog, deployed, batch, probe, horizon>>

NextMirror == Tick \/ MirrorFb \/ MirrorLi

SpecMirror == InitMirror /\ [][NextMirror]_vars

----------------------------------------------------------------------------
(* linkedin_poster.py started by the workflow timer and by nothing else: the
   timer fires every TimerPeriod seconds, the run sleeps its random delay,
   posts and is over before the timer fires again.  now is the time of the
   firing that comes next. *)

InitCron ==
    /\ \E m \in 0..MaxCatalog : catalog = load_content(m)
    /\ deployed = {"li"}
    /\ file = [p \in Programs |-> NoFile]
    /\ now = 0
    /\ published = [p \in Programs |-> <<>>]
    /\ run = NoRun
    /\ batch = Idle
    /\ probe = NoProbe
    /\ pictures = <<>>
    /\ horizon = MaxPublishes

\* one firing of the timer and the run it starts
LiCron ==
    /\ Ready("li")
    /\ \E creds \in BOOLEAN, delay \in LiDelays :
       \E identity \in (IF creds THEN Identities ELSE {"none"}) :
       \E rnd \in (IF creds /\ get_user_id(identity).found THEN RandomDraws ELSE {1}),
          upload \in (IF creds /\ get_user_id(identity).found
                      THEN UploadOutcomes ELSE {"ok"}),
          outcome \in (IF creds /\ get_user_id(identity).found
                       THEN Outcomes ELSE {"error"}),
          rid \in RemoteIds :
          /\ now + delay <= MaxTime
          /\ now' = now + TimerPeriod
          /\ Apply("li", li_main(file["li"], catalog, now + delay, creds,
                                 identity, rnd, upload, outcome, rid))
    /\ UNCHANGED <<catalog, deployed, batch, probe, horizon>>

NextCron == LiCron

SpecCron == InitCron /\ [][NextCron]_vars

----------------------------------------------------------------------------
(* fb_poster.py or linkedin_poster.py run by the timer for ever.  To keep the
   behaviours finite-state the clock is read relative to the last accepted
   post, which is all that should_post_now looks at: an accepted post is
   recorded at time 0 and now restarts from 0, and now stops counting at
   MaxTime, beyond the largest draw of the gate.  The histories published
   and pictures are not kept. *)

\* the log file with its time moved back by t seconds
Shift(f, t) ==
    IF f = NoFile \/ f[1].last_post_time = NoneVal THEN f
    ELSE <<[f[1] EXCEPT !.last_post_time = <<@[1] - t>>]>>

InitLive ==
    /\ \E m \in 1..MaxCatalog : catalog = load_content(m)
    /\ \E p \in {"fb", "li"} : deployed = {p}
    /\ file = [p \in Programs |-> NoFile]
    /\ now = 0
    /\ published = [p \in Programs |-> <<>>]
    /\ run = NoRun
    /\ batch = Idle
    /\ probe = NoProbe
    /\ pictures = <<>>
    /\ horizon = MaxPublishes

\* the effect of a run of program p that ends at time t
LiveApply(p, res, t) ==
    /\ file' = [file EXCEPT ![p] = IF res.obs.ok THEN Shift(res.file, t) ELSE res.file]
    /\ now' = IF res.obs.ok THEN 0 ELSE Min(t, MaxTime)
    /\ run' = res.obs

LiveTick ==
    /\ now < MaxTime
    /\ \E d \in AdvanceSteps : now' = Min(now + d, MaxTime)
    /\ UNCHANGED <<catalog, deployed, file, published, run, batch, probe, pictures, horizon>>

\* the timer starts fb_poster.py
LiveFb ==
    /\ "fb" \in deployed
    /\ \E r \in RequiredDraws, creds \in BOOLEAN,
          imgExists \in BOOLEAN, outcome \in Outcomes, rid \in RemoteIds :
          LiveApply("fb", main(file["fb"], catalog, now, "schedule", r, creds,
                               imgExists, outcome, rid), now)
    /\ UNCHANGED <<catalog, deployed, published, batch, probe, pictures, horizon>>

\* the lookups and uploads drawn here: one that works and one that fails
LiveIdentities == {"userinfo", "none"}
LiveUploads == {"ok", "upload"}

\* the timer starts linkedin_poster.py
LiveLi ==
    /\ "li" \in deployed
    /\ \E creds \in BOOLEAN, delay \in LiDelays :
       \E identity \in (IF creds THEN LiveIdentities ELSE {"none"}) :
       \E rnd \in (IF creds /\ get_user_id(identity).found THEN RandomDraws ELSE {1}),
          upload \in (IF creds /\ get_user_id(identity).found
                      THEN LiveUploads ELSE {"ok"}),
          outcome \in (IF creds /\ get_user_id(identity).found
                       THEN Outcomes ELSE {"error"}),
          rid \in RemoteIds :
          LiveApply("li", li_main(file["li"], catalog, now + delay, creds,
                                  identity, rnd, upload, outcome, rid), now + delay)
    /\ UNCHANGED <<catalog, deployed, published, batch, probe, pictures, horizon>>

NextLive == LiveTick \/ LiveFb \/ LiveLi

\* a timer-started run whose submission is accepted
Accepted == (LiveFb \/ LiveLi) /\ run'.ok

\* time advances, and again and again a submission is accepted
SpecLive ==
    /\ InitLive
    /\ [][NextLive]_vars
    /\ WF_vars(LiveTick)
    /\ SF_vars(Accepted)

----------------------------------------------------------------------------
(* The image rotation of fb_poster applied on its own, to two post counts at
   a time so that their images can be compared *)

MaxPostsCount == 35

InitImage ==
    /\ Quiet
    /\ \E c1 \in 0..MaxPostsCount, c2 \in 0..MaxPostsCount, imgExists \in BOOLEAN :
          probe = [op |-> "image_args", posts_count |-> <<c1, c2>>,
                   imgExists |-> imgExists]

Image ==
    /\ probe.op = "image_args"
    /\ probe' = [probe EXCEPT !.op = "fb_image"] @@
                [out |-> <<fb_image(probe.posts_count[1], probe.imgExists),
                           fb_image(probe.posts_count[2], probe.imgExists)>>]
    /\ UNCHANGED <<catalog, deployed, file, now, published, run, batch, pictures, horizon>>

NextImage == Image

SpecImage == InitImage /\ [][NextImage]_vars

----------------------------------------------------------------------------
(* The formatters applied on their own *)

TextAlphabet == {"a", "#", NL}

Texts == SeqsUpTo(TextAlphabet, MaxTextLen)

ProbePosts ==
    {[id |-> 1, pillar |-> "p", content |-> c, hashtags |-> h, cta |-> a] :
        c \in Texts, h \in Texts, a \in Texts}

InitFormat ==
    /\ Quiet
    /\ \E post \in ProbePosts : probe = [op |-> "format_args", post |-> post]

FormatFb ==
    /\ probe.op = "format_args"
    /\ \E variant \in 1..5, addEmoji \in BOOLEAN :
       \E k \in (IF addEmoji THEN 1..Len(EMOJIS) ELSE {1}),
          insert_pos \in (IF addEmoji THEN {0, -1} ELSE {0}) :
          probe' = [op |-> "format_post_variant", post |-> probe.post,
                    variant |-> variant, addEmoji |-> addEmoji,
                    out |-> format_post_variant(probe.post, variant, addEmoji,
                                                EMOJIS[k], insert_pos)]
    /\ UNCHANGED <<catalog, deployed, file, now, published, run, batch, pictures, horizon>>

FormatLi ==
    /\ probe.op = "format_args"
    /\ probe' = [op |-> "li_format_post", post |-> probe.post,
                 variant |-> 0, addEmoji |-> FALSE,
                 out |-> li_format_post(probe.post)]
    /\ UNCHANGED <<catalog, deployed, file, now, published, run, batch, pictures, horizon>>

FormatLo ==
    /\ probe.op = "format_args"
    /\ probe' = [op |-> "format_post", post |-> probe.post,
                 variant |-> 0, addEmoji |-> FALSE,
                 out |-> format_post(probe.post)]
    /\ UNCHANGED <<catalog, deployed, file, now, published, run, batch, pictures, horizon>>

NextFormat == FormatFb \/ FormatLi \/ FormatLo

SpecFormat == InitFormat /\ [][NextFormat]_vars

FormatOps == {"format_post_variant", "li_format_post", "format_post"}

----------------------------------------------------------------------------
(* Properties *)

ProgOf(prog) ==
    CASE prog \in {"fb_main", "fb_test"} -> "fb"
      [] prog \in {"li_main", "li_test"} -> "li"
      [] OTHER -> "lo"

PublishRuns == {"fb_main", "li_main", "lo_single"}

ReadOnlyRuns == {"fb_test", "li_test", "lo_status"}

Persisted(p) == load_posted_log(file[p])

\* C1: a run of main / post_single whose submission did not succeed leaves the
\* persisted log without any new identifier and with lastPostTime and
\* lastPostId as before; postedIds is as before or has become empty.
C1_FailedRunKeepsLog ==
    (run.prog \in PublishRuns /\ ~run.ok) =>
        LET before == load_posted_log(run.before)
            after == Persisted(ProgOf(run.prog))
        IN  /\ Range(after.posted_ids) \subseteq Range(before.posted_ids)
            /\ after.last_post_time = before.last_post_time
            /\ after.last_post_id = before.last_post_id
            /\ after.posted_ids \in {before.posted_ids, <<>>}

\* a LinkedIn run that reset the cycle, sent its submission and was refused
C1_Witness ==
    /\ run.prog = "li_main" /\ run.submits = 1 /\ ~run.ok /\ run.reset
    /\ load_posted_log(run.before).posted_ids # <<>>
    /\ load_posted_log(run.before).last_post_time # NoneVal
    /\ Persisted("li").posted_ids = <<>>

\* the unposted catalog positions with respect to a log
Unposted(posts, log) ==
    {i \in 1..Len(posts) : \A j \in 1..Len(log.posted_ids) :
                              log.posted_ids[j] # posts[i].id}

\* C2: the selector returns at most count records, none of them in the log as
\* it stands on return, and they are the first min(count, k) of the k
\* unposted records, in catalog order.
C2_SelectsUnpostedInOrder ==
    probe.op \in SelectOps =>
        LET res == probe.out.result
            U == Unposted(probe.posts, probe.out.log)
        IN  /\ Len(res) <= probe.count
            /\ Len(res) = Min(probe.count, Cardinality(U))
            /\ \A j \in 1..Len(res) :
                  /\ res[j].id \notin Range(probe.out.log.posted_ids)
                  /\ \E i \in U : /\ res[j] = probe.posts[i]
                                  /\ Cardinality({h \in U : h < i}) = j - 1

\* two of three records are unposted, in an order that is not the id order
C2_Witness ==
    /\ probe.op = "get_next_posts"
    /\ Ids(probe.posts) = <<3, 1, 2>>
    /\ probe.log.posted_ids = <<1>>
    /\ probe.count = 2
    /\ Ids(probe.out.result) = <<3, 2>>

\* C3: when every catalog record is in the log the selector empties postedIds
\* and returns the first min(count, |C|) records of the catalog; when a record
\* is still unposted it leaves postedIds alone; an empty catalog gives an
\* empty result.
C3_CycleReset ==
    probe.op \in SelectOps =>
        /\ (Unposted(probe.posts, probe.log) = {}) =>
              /\ probe.out.log.posted_ids = <<>>
              /\ Len(probe.out.result) = Min(probe.count, Len(probe.posts))
              /\ \A j \in 1..Len(probe.out.result) :
                    probe.out.result[j] = probe.posts[j]
        /\ (Unposted(probe.posts, probe.log) # {}) =>
              probe.out.log.posted_ids = probe.log.posted_ids
        /\ (probe.posts = <<>>) => probe.out.result = <<>>

\* catalog 1,2,3 all posted and count 1: record 1 comes back, the log is []
C3_Witness ==
    /\ probe.op \in {"get_next_posts", "li_get_next_posts"}
    /\ Ids(probe.posts) = <<1, 2, 3>>
    /\ probe.log.posted_ids = <<1, 2, 3>>
    /\ probe.count = 1
    /\ Ids(probe.out.result) = <<1>>
    /\ probe.out.log.posted_ids = <<>>

\* C4: the persisted postedIds of every program holds no identifier twice and
\* only identifiers of catalog records, so it is no longer than the catalog.
C4_LogIsSetOfCatalogIds ==
    \A p \in Programs :
        /\ IsInjective(Persisted(p).posted_ids)
        /\ Range(Persisted(p).posted_ids) \subseteq Range(Ids(catalog))
        /\ Len(Persisted(p).posted_ids) <= Len(catalog)

\* a program has gone round the catalog and started the next cycle
C4_Witness ==
    \E p \in Programs :
        /\ Len(catalog) = 2
        /\ Len(published[p]) > Len(catalog)
        /\ Len(Persisted(p).posted_ids) = 1

\* C5: the k-th record accepted from fb_poster and from linkedin_poster is the
\* catalog record at position ((k-1) mod m) + 1.
C5_PublishesInCyclicOrder ==
    \A p \in {"fb", "li"} :
        \A k \in 1..Len(published[p]) :
            published[p][k] = catalog[((k - 1) % Len(catalog)) + 1].id

\* three publishes over a catalog of two: the third is the first record again
C5_Witness ==
    /\ Len(catalog) = 2
    /\ Len(published["fb"]) = 3
    /\ published["fb"][2] = catalog[2].id
    /\ published["fb"][3] = catalog[1].id

\* C6: a run of test_mode or show_status sends no submission and leaves the
\* persisted posted log as it was (the log read back after the run is the log
\* read before it).
C6_ReadOnlyModesKeepLog ==
    run.prog \in ReadOnlyRuns =>
        /\ run.submits = 0
        /\ Persisted(ProgOf(run.prog)) = load_posted_log(run.before)

\* C7: with skip_wait true, or with last_post_time unset, should_post_now
\* returns (True, 0) whatever the time and the draw.
C7_BypassOrFirstPost ==
    (/\ probe.op = "should_post_now"
     /\ (probe.skip_wait \/ probe.log.last_post_time = NoneVal)) =>
        probe.out = <<TRUE, 0>>

\* bypass with a last post one second ago, under the largest draw
C7_Witness ==
    /\ probe.op = "should_post_now"
    /\ probe.skip_wait
    /\ probe.log.last_post_time = <<probe.t - 1>>
    /\ probe.r = GateMax
    /\ probe.out = <<TRUE, 0>>

GateTimed ==
    /\ probe.op = "should_post_now"
    /\ ~probe.skip_wait
    /\ probe.log.last_post_time # NoneVal

ProbeElapsedSeconds == probe.t - probe.log.last_post_time[1]

\* C8: bypass false and lastPostTime set: at 158 minutes or more the answer is
\* (True, 0) under every draw, below 107 minutes it is not-allowed under
\* every draw.
C8_OutsideTheRange ==
    GateTimed =>
        /\ (ProbeElapsedSeconds >= GateMax * SecondsPerMinute) =>
              probe.out = <<TRUE, 0>>
        /\ (ProbeElapsedSeconds < GateMin * SecondsPerMinute) =>
              probe.out[1] = FALSE

\* exactly 158 minutes under the draw 158, which is the tightest case
C8_Witness ==
    /\ GateTimed
    /\ ProbeElapsedSeconds = GateMax * SecondsPerMinute
    /\ probe.r = GateMax
    /\ probe.out = <<TRUE, 0>>

\* C9: bypass false and lastPostTime set: the answer is (True, 0) exactly when
\* elapsed >= r, and otherwise (False, m) where m is the whole number with
\* m <= r - elapsed < m + 1 (in minutes), and m lies in 0..158.
C9_GateAgainstTheDraw ==
    GateTimed =>
        /\ probe.r \in GateMin..GateMax
        /\ IF ProbeElapsedSeconds >= probe.r * SecondsPerMinute
           THEN probe.out = <<TRUE, 0>>
           ELSE /\ probe.out[1] = FALSE
                /\ probe.out[2] \in 0..GateMax
                /\ probe.out[2] * SecondsPerMinute
                      <= probe.r * SecondsPerMinute - ProbeElapsedSeconds
                /\ probe.r * SecondsPerMinute - ProbeElapsedSeconds
                      < (probe.out[2] + 1) * SecondsPerMinute

\* one second short of the draw: not allowed, zero whole minutes remaining
C9_Witness ==
    /\ GateTimed
    /\ ProbeElapsedSeconds = probe.r * SecondsPerMinute - 1
    /\ probe.out = <<FALSE, 0>>

FieldOrders ==
    {o \in [1..3 -> {"content", "cta", "hashtags"}] : IsInjective(o)}

NewlineRuns == {<<NL>>, <<NL, NL>>, <<NL, NL, NL>>}

Decorations ==
    {<<<<>>, <<>>>>}
    \cup {<<<<EMOJIS[k], SP>>, <<>>>> : k \in 1..Len(EMOJIS)}
    \cup {<<<<>>, <<SP, EMOJIS[k]>>>> : k \in 1..Len(EMOJIS)}

\* text is the three fields of post, each once, in some order, joined by
\* runs of newlines
IsPlainArrangement(text, post) ==
    \E o \in FieldOrders, s1 \in NewlineRuns, s2 \in NewlineRuns :
        text = post[o[1]] \o s1 \o post[o[2]] \o s2 \o post[o[3]]

\* the same with at most one emoji and a space in front or behind
IsArrangement(text, post) ==
    \E d \in Decorations :
        /\ Len(text) >= Len(d[1]) + Len(d[2])
        /\ SubSeq(text, 1, Len(d[1])) = d[1]
        /\ SubSeq(text, Len(text) - Len(d[2]) + 1, Len(text)) = d[2]
        /\ IsPlainArrangement(SubSeq(text, Len(d[1]) + 1, Len(text) - Len(d[2])), post)

\* C10: the text of every formatter is the record's body, call-to-action and
\* hashtag block, each once as a component, with only separators and at most
\* one emoji added.
C10_FormatKeepsAllThree ==
    probe.op \in FormatOps => IsArrangement(probe.out, probe.post)

\* the hashtags-first template with an emoji appended
C10_Witness ==
    /\ probe.op = "format_post_variant"
    /\ probe.variant = 2
    /\ probe.addEmoji
    /\ probe.post.content # <<>> /\ probe.post.cta # <<>>
    /\ probe.post.hashtags = <<"#">>
    /\ probe.out[1] = "#"
    /\ probe.out[Len(probe.out)] = EMOJIS[17]

\* the sequence number of the post made at a post count: the ids already
\* posted, plus one
SeqNo(posts_count) == posts_count + 1

\* C11: with an image every 3rd post and the pool of 11 images present, a
\* post whose sequence number is not a multiple of 3 gets no image and the
\* post with sequence number 3k gets pool image (k-1) mod 11, so that the
\* numbers 3, 6, ..., 33 get 11 different images and 36 gets the image of 3.
C11_ImageEveryThirdPost ==
    (probe.op = "fb_image" /\ probe.imgExists) =>
        LET s1 == SeqNo(probe.posts_count[1])
            s2 == SeqNo(probe.posts_count[2])
        IN  /\ s1 % 3 # 0 => probe.out[1] = 0
            /\ \A k \in 1..s1 :
                  s1 = 3 * k => /\ probe.out[1] \in 1..11
                                /\ image_files[probe.out[1]] =
                                      image_files[((k - 1) % 11) + 1]
            /\ ( /\ s1 \in {3 * k : k \in 1..11}
                 /\ s2 \in {3 * k : k \in 1..11}
                 /\ s1 # s2 )
               => image_files[probe.out[1]] # image_files[probe.out[2]]
            /\ (s1 = 3 /\ s2 = 36) => probe.out[1] = probe.out[2]

\* the 3rd and the 36th post both get the first image of the pool
C11_Witness ==
    /\ probe.op = "fb_image"
    /\ probe.imgExists
    /\ SeqNo(probe.posts_count[1]) = 3
    /\ SeqNo(probe.posts_count[2]) = 36
    /\ probe.out = <<1, 1>>

\* C12: over the accepted posts of fb_poster, for a catalog of any size, no
\* pool image is attached a second time before each of the 11 images has
\* been attached once.
C12_FullCoverageBeforeRepeat ==
    \A i \in 1..Len(pictures), j \in 1..Len(pictures) :
        (i < j /\ pictures[i] = pictures[j]) =>
            {pictures[k] : k \in 1..(j - 1)} = 1..Len(image_files)

\* the posted ids the last run worked on: those it read, or none after a
\* cycle reset
RunBase ==
    IF run.reset THEN <<>> ELSE load_posted_log(run.before).posted_ids

\* C13: linkedin_poster's main passes the number of posted ids plus one, and
\* get_image_url picks the featured image ad-10 exactly when that number is a
\* multiple of 3 and one of ad-1 .. ad-9 otherwise.
C13_FeaturedEveryThird ==
    (run.prog = "li_main" /\ run.wanted # 0) =>
        LET post_number == Len(RunBase) + 1
        IN  /\ run.wanted = 10 <=> post_number % 3 = 0
            /\ post_number % 3 # 0 => run.wanted \in 1..9

\* the third post of linkedin_poster goes out with the featured image
C13_Witness ==
    /\ run.prog = "li_main"
    /\ Len(RunBase) = 2
    /\ run.wanted = 10
    /\ run.attached
    /\ run.ok

\* C14: when linkedin_poster cannot resolve the identity, the attempt fails
\* with no image-upload and no submission request, each lookup endpoint is
\* asked at most once, the run exits non-zero and no id is appended.
C14_NoIdentityNoPublish ==
    (run.prog = "li_main" /\ run.user = "missing") =>
        /\ ~run.ok
        /\ run.uploads = 0
        /\ run.submits = 0
        /\ run.lookups \in 1..2
        /\ run.exit = 1
        /\ Persisted("li").posted_ids = RunBase

\* both lookups fail after an earlier accepted post
C14_Witness ==
    /\ run.prog = "li_main"
    /\ run.user = "missing"
    /\ run.lookups = 2
    /\ run.selected # <<>>
    /\ Persisted("li").posted_ids # <<>>

\* the log as a default-mode run leaves it after an accepted post
Recorded(p) ==
    /\ Persisted(p).posted_ids = Append(RunBase, run.selected[1])
    /\ Persisted(p).last_post_time # NoneVal
    /\ Persisted(p).last_post_id # NoneVal

\* C15: a failed image upload in linkedin_poster and a missing image file in
\* fb_poster still lead to the submission, sent without an image, and an
\* accepted post is recorded in the log in the same way with or without one.
C15_MediaFailureKeepsPublish ==
    /\ (run.prog = "li_main" /\ run.uploads > 0 /\ ~run.attached) =>
            run.submits = 1
    /\ (run.prog = "fb_main" /\ run.creds /\ run.wanted # 0 /\ run.image = 0) =>
            (run.submits = 1 /\ ~run.attached)
    /\ (run.prog \in {"fb_main", "li_main"} /\ run.ok) =>
            Recorded(ProgOf(run.prog))

\* the third post of fb_poster is accepted without its missing image file
C15_Witness ==
    /\ run.prog = "fb_main"
    /\ run.wanted # 0
    /\ run.image = 0
    /\ run.ok
    /\ Len(Persisted("fb").posted_ids) = 3

\* C16: in every variant a default-mode run whose publish attempt fails exits
\* non-zero, and one whose publish succeeds exits zero.
C16_ExitStatusFollowsPublish ==
    (run.prog \in PublishRuns /\ ~run.inBatch /\ run.selected # <<>>) =>
        /\ run.ok => run.exit = 0
        /\ ~run.ok => run.exit # 0

\* C17: with the credentials missing, a default-mode run of any variant that
\* gets to its publisher sends no request, leaves the persisted log exactly
\* as it was, whatever it held, and exits non-zero.
C17_MissingCredentialsNoEffect ==
    (run.prog \in PublishRuns /\ ~run.inBatch /\ run.selected # <<>> /\ ~run.creds) =>
        /\ run.lookups = 0 /\ run.uploads = 0 /\ run.submits = 0
        /\ Persisted(ProgOf(run.prog)) = load_posted_log(run.before)
        /\ run.exit # 0

\* the catalog position that follows position i cyclically
CyclicNext(i) == (i % Len(catalog)) + 1

\* the catalog position of an id
PositionOf(id) == CHOOSE i \in 1..Len(catalog) : catalog[i].id = id

\* C18: in a batch of fb_poster (count iterations) or fb_poster_local
\* (POSTS_PER_RUN iterations) with credentials, a non-empty catalog and no
\* refused submission, every iteration publishes one record, the one that
\* follows the previous iteration's record cyclically, and the process waits
\* after every iteration but the last.
C18_BatchPublishesCount ==
    [][ ( /\ batch.prog \in {"fb", "lo"}
          /\ batch.creds
          /\ catalog # <<>>
          /\ (run'.submits > 0 => run'.ok) )
        => /\ Len(published'[batch.prog]) = Len(published[batch.prog]) + 1
           /\ (batch.i > 0 /\ run.ok) =>
                  run'.selected = <<catalog[CyclicNext(PositionOf(run.selected[1]))].id>>
           /\ IF batch.i < batch.count - 1
              THEN now' > now /\ batch'.i = batch.i + 1
              ELSE now' = now /\ batch'.prog = "none" ]_vars

\* the record the selector takes from the persisted log of program p
NextDue(p) ==
    LET U == Unposted(catalog, Persisted(p))
    IN  IF catalog = <<>> THEN <<>>
        ELSE IF U = {} THEN <<catalog[1].id>>
        ELSE <<catalog[CHOOSE i \in U : \A j \in U : i <= j].id>>

\* a default-mode run whose submission was sent and refused
FailedSubmission(r) ==
    r.prog \in PublishRuns /\ r.submits > 0 /\ ~r.ok

\* C19: a default-mode run sends at most one submission request; after a
\* refused submission the persisted log makes the selector take the same
\* record again, also when the failed run had reset the cycle, and the next
\* run that selects does select it.
C19_FailedPublishIsRetriedNextRun ==
    /\ [](run.prog \in PublishRuns => run.submits <= 1)
    /\ [](FailedSubmission(run) => NextDue(ProgOf(run.prog)) = run.selected)
    /\ [][ ( /\ FailedSubmission(run)
             /\ run'.prog \in PublishRuns
             /\ run'.selected # <<>> )
           => run'.selected = run.selected ]_vars

\* fb_poster reset the cycle in memory and its submission was refused
C19_Witness ==
    /\ run.prog = "fb_main"
    /\ run.reset
    /\ run.submits = 1
    /\ ~run.ok
    /\ Len(Persisted("fb").posted_ids) = Len(catalog)
    /\ NextDue("fb") = <<catalog[1].id>>

\* C20: the reset mode leaves the persisted log with no posted id and no
\* last post time whatever it held, so that the next default-mode run takes
\* the first catalog record, and a second reset changes nothing.
C20_ResetClearsLog ==
    /\ [](run.prog = "lo_reset" =>
             /\ file["lo"] # NoFile
             /\ Persisted("lo").posted_ids = <<>>
             /\ Persisted("lo").last_post_time = NoneVal)
    /\ [][ (run.prog = "lo_reset" /\ run'.prog = "lo_single" /\ catalog # <<>>)
           => run'.selected = <<catalog[1].id>> ]_vars
    /\ [][ (run.prog = "lo_reset" /\ run'.prog = "lo_reset") => file' = file ]_vars

\* the reset is applied to a log that holds ids and a time
C20_Witness ==
    /\ run.prog = "lo_reset"
    /\ load_posted_log(run.before).posted_ids # <<>>
    /\ load_posted_log(run.before).last_post_time # NoneVal
    /\ Persisted("lo").posted_ids = <<>>

\* the catalog record with an id
RecordOf(id) == catalog[PositionOf(id)]

\* C21: over the same catalog and from empty logs, the k-th accepted post of
\* linkedin_poster carries the same record (body, call-to-action, hashtags)
\* as the k-th accepted post of fb_poster, however their runs and failures
\* interleave.
C21_LinkedInMirrorsFacebook ==
    \A k \in 1..Min(Len(published["fb"]), Len(published["li"])) :
        LET fbRecord == RecordOf(published["fb"][k])
            liRecord == RecordOf(published["li"][k])
        IN  /\ fbRecord.id = liRecord.id
            /\ fbRecord.content = liRecord.content
            /\ fbRecord.cta = liRecord.cta
            /\ fbRecord.hashtags = liRecord.hashtags

\* both posters are into their second cycle, having posted at different times
C21_Witness ==
    /\ Len(published["fb"]) > Len(catalog)
    /\ Len(published["li"]) > Len(catalog)
    /\ Len(catalog) > 1
    /\ Persisted("fb").last_post_time # Persisted("li").last_post_time

\* C22: a run of any variant that resets the cycle and has its post accepted
\* leaves exactly the one new id in the persisted log, and when it ends
\* between the reset and the publish the selector's next pick from the
\* persisted log is the first catalog record.
C22_CycleResetNotLost ==
    (run.prog \in PublishRuns /\ run.reset /\ catalog # <<>>) =>
        /\ run.ok => Persisted(ProgOf(run.prog)).posted_ids = run.selected
        /\ ~run.ok => NextDue(ProgOf(run.prog)) = <<catalog[1].id>>

\* fb_poster resets a full log of two ids in memory and saves the one new id
C22_Witness ==
    /\ run.prog = "fb_main"
    /\ run.reset
    /\ run.ok
    /\ Len(load_posted_log(run.before).posted_ids) = 2
    /\ Persisted("fb").posted_ids = <<catalog[1].id>>

\* C24: an accepted post of fb_poster made by a run that was not triggered
\* manually, batch iterations included, is at least 107 minutes later than
\* the lastPostTime the previous accepted post recorded.
C24_TimerPostsAreSpaced ==
    ( /\ run.prog = "fb_main"
      /\ run.ok
      /\ ~run.skip_wait
      /\ load_posted_log(run.before).last_post_time # NoneVal )
    => Persisted("fb").last_post_time[1]
         - load_posted_log(run.before).last_post_time[1] >= 107 * 60

\* a batch iteration under the timer event posts two hours after the last post
C24_Witness ==
    /\ run.prog = "fb_main"
    /\ run.inBatch
    /\ run.ok
    /\ ~run.skip_wait
    /\ load_posted_log(run.before).last_post_time # NoneVal
    /\ Persisted("fb").last_post_time[1]
         - load_posted_log(run.before).last_post_time[1] = 7200

\* C26: a run of fb_poster that the gate does not allow selects nothing,
\* resets nothing, picks no image, sends no request, leaves the persisted
\* log as it was and exits with status zero.
C26_GateComesFirst ==
    (run.prog = "fb_main" /\ ~run.gate) =>
        /\ run.selected = <<>>
        /\ ~run.reset
        /\ run.wanted = 0 /\ run.image = 0
        /\ run.submits = 0
        /\ ~run.ok
        /\ run.exit = 0
        /\ file["fb"] = run.before

\* the gate stops a run whose selector would have reset a full log
C26_Witness ==
    /\ run.prog = "fb_main"
    /\ ~run.gate
    /\ catalog # <<>>
    /\ Len(load_posted_log(run.before).posted_ids) = Len(catalog)
    /\ file["fb"] = run.before

\* two gate evaluations made with the bypass off on a log that has a time
GateTwiceTimed ==
    /\ probe.op = "should_post_now_twice"
    /\ ~probe.skip_wait
    /\ probe.log.last_post_time # NoneVal

\* C23 as claimed: two evaluations of should_post_now on the same log at the
\* same instant with the bypass off give the same answer.
C23_RepeatedGateChecksAgree ==
    (probe.op = "should_post_now_twice" /\ ~probe.skip_wait) =>
        probe.out[1][1] = probe.out[2][1]

\* C23 as the code has it: each evaluation draws its own bound, and the two
\* answers differ exactly when the elapsed time is at least the smaller and
\* less than the larger of the two bounds; they agree on a log without a
\* time, below 107 minutes, from 158 minutes on, and on equal draws.
C23_AgreeOutsideTheDraws ==
    /\ GateTwiceTimed =>
          LET lo == Min(probe.r[1], probe.r[2])
              hi == IF probe.r[1] > probe.r[2] THEN probe.r[1] ELSE probe.r[2]
              differ == probe.out[1][1] # probe.out[2][1]
          IN  /\ differ <=> ( /\ ProbeElapsedSeconds >= lo * 60
                              /\ ProbeElapsedSeconds < hi * 60 )
              /\ (ProbeElapsedSeconds < 107 * 60 \/ ProbeElapsedSeconds >= 158 * 60)
                    => ~differ
    /\ ( /\ probe.op = "should_post_now_twice"
         /\ ~probe.skip_wait
         /\ probe.log.last_post_time = NoneVal )
       => probe.out[1][1] = probe.out[2][1]

\* at 158 minutes sharp the draws 107 and 158 both allow the post
C23_Witness ==
    /\ GateTwiceTimed
    /\ ProbeElapsedSeconds = 158 * 60
    /\ probe.r = <<107, 158>>
    /\ probe.out[1][1] /\ probe.out[2][1]

\* C25: with the timer firing every 2 hours and every timer-started run of
\* linkedin_poster sleeping a fresh delay of 0 to 3600 seconds, two accepted
\* posts of consecutive firings are between 2 and 3 hours apart.
C25_TimerIntervalTwoToThreeHours ==
    ( /\ run.prog = "li_main"
      /\ run.ok
      /\ load_posted_log(run.before).last_post_time # NoneVal
      /\ load_posted_log(run.before).last_post_time[1] >= now - 2 * TimerPeriod )
    => LET gap == Persisted("li").last_post_time[1]
                    - load_posted_log(run.before).last_post_time[1]
       IN  gap >= 2 * 3600 /\ gap <= 3 * 3600

\* C27: with a non-empty catalog, timer-started runs that go on as time
\* advances and submissions accepted again and again, every catalog record
\* is published again and again, which takes a cycle reset every time round;
\* and a run that the gate refuses comes less than 158 minutes after the
\* last post.
C27_EveryRecordAgainAndAgain ==
    /\ \A i \in 1..MaxCatalog :
          []<>(i > Len(catalog) \/ (run.ok /\ run.selected = <<catalog[i].id>>))
    /\ [][ (run'.prog = "fb_main" /\ ~run'.gate /\ now' = now)
           => now < 158 * 60 ]_vars

\* the first record is published a second time, after the cycle reset
C27_Witness ==
    /\ Len(catalog) = 2
    /\ run.ok
    /\ run.reset
    /\ run.selected = <<catalog[1].id>>
    /\ load_posted_log(run.before).last_post_time # NoneVal

====
